---- MODULE Spec2Model ----
(***************************************************************************)
(* A model of the binwrite crate: the WriteTrack adapter                   *)
(* (src/src/write_track.rs), the BinWrite implementations of the           *)
(* primitives, sequences and tuples (src/src/binwrite_impls.rs) and the    *)
(* built-in text writers (src/src/writers.rs).                             *)
(*                                                                         *)
(* Two state machines share the module.  SpecTrack drives a WriteTrack     *)
(* over a wrapped sink that may accept a write in full, in part, or fail   *)
(* it.  SpecEnc drives one write_options call at a time against such a     *)
(* sink, one sink call per step.                                           *)
(***************************************************************************)
EXTENDS Integers, Sequences, FiniteSets, TLC

(***************************************************************************)
(* Bounds of the model.                                                    *)
(***************************************************************************)
MaxData == 2
MaxInner == 4
MaxSeek == 2

(***************************************************************************)
(* io::Result values.  Ok carries the usize / u64 of the call (0 for the   *)
(* unit value), Err carries the error kind.                                *)
(***************************************************************************)
Ok(n) == [kind |-> "Ok", val |-> n, err |-> "none"]
Err(e) == [kind |-> "Err", val |-> 0, err |-> e]

\* Error kinds the wrapped sink can report on its own.
SinkErrors == {"BrokenPipe", "Interrupted"}

\* Byte values the callers of the adapter write.
TrackBytes == {0, 65}

RECURSIVE SeqsUpTo(_, _)
SeqsUpTo(S, n) ==
  IF n = 0 THEN {<<>>}
  ELSE LET shorter == SeqsUpTo(S, n - 1)
       IN  shorter \cup {Append(s, x) : s \in {t \in shorter : Len(t) = n - 1}, x \in S}

\* What Write::write of the wrapped sink may answer to a request: any count
\* from 0 to the requested length, or a failure.
SinkWriteResults(data) ==
  {Ok(n) : n \in 0..Len(data)} \cup {Err(e) : e \in SinkErrors}

\* What Write::flush of the wrapped sink may answer.
SinkFlushResults == {Ok(0)} \cup {Err(e) : e \in SinkErrors}

\* std::io::SeekFrom: Start(u64), Current(i64), End(i64).
SeekRequests ==
  {[whence |-> "Start", off |-> n] : n \in 0..MaxSeek}
    \cup {[whence |-> w, off |-> d] : w \in {"Current", "End"}, d \in (0 - MaxSeek)..MaxSeek}

NoRequest == [whence |-> "none", off |-> 0]

VARIABLES
  inner,      \* WriteTrack.inner: the bytes the wrapped sink holds
  pos,        \* WriteTrack.pos
  op,         \* the operation performed last on the adapter
  seekReq,    \* the SeekFrom of the last seek
  sinkRes,    \* what the wrapped sink answered to the last forwarded call
  ret,        \* what the adapter returned from the last operation
  posBefore,  \* pos when the last operation started
  accepted,   \* sum of the counts the sink reported on successful adapter writes
  requested   \* sum of the lengths requested in those writes

trackVars == <<inner, pos, op, seekReq, sinkRes, ret, posBefore, accepted, requested>>

\* WriteTrack::new
WriteTrack_new ==
  /\ inner = <<>>
  /\ pos = 0
  /\ op = "new"
  /\ seekReq = NoRequest
  /\ sinkRes = Ok(0)
  /\ ret = Ok(0)
  /\ posBefore = 0
  /\ accepted = 0
  /\ requested = 0

\* A write that counts the bytes requested instead of the bytes accepted.
WriteTrack_write_requested(data, res) ==
  /\ Len(inner) + Len(data) <= MaxInner
  /\ requested + Len(data) <= MaxInner
  /\ res \in SinkWriteResults(data)
  /\ op' = "write"
  /\ seekReq' = NoRequest
  /\ sinkRes' = res
  /\ posBefore' = pos
  /\ IF res.kind = "Ok"
       THEN /\ inner' = inner \o SubSeq(data, 1, res.val)
            /\ pos' = pos + Len(data)
            /\ ret' = Ok(res.val)
            /\ accepted' = accepted + res.val
            /\ requested' = requested + Len(data)
       ELSE /\ ret' = res
            /\ UNCHANGED <<inner, pos, accepted, requested>>

\* <WriteTrack as Write>::write: let amount = self.inner.write(data)?;
\* self.pos += amount; Ok(amount)
WriteTrack_write(data, res) ==
  /\ Len(inner) + Len(data) <= MaxInner
  /\ requested + Len(data) <= MaxInner
  /\ res \in SinkWriteResults(data)
  /\ op' = "write"
  /\ seekReq' = NoRequest
  /\ sinkRes' = res
  /\ posBefore' = pos
  /\ IF res.kind = "Ok"
       THEN /\ inner' = inner \o SubSeq(data, 1, res.val)
            /\ pos' = pos + res.val
            /\ ret' = Ok(res.val)
            /\ accepted' = accepted + res.val
            /\ requested' = requested + Len(data)
       ELSE /\ ret' = res
            /\ UNCHANGED <<inner, pos, accepted, requested>>

\* <WriteTrack as Write>::flush: self.inner.flush()
WriteTrack_flush(res) ==
  /\ res \in SinkFlushResults
  /\ op' = "flush"
  /\ seekReq' = NoRequest
  /\ sinkRes' = res
  /\ ret' = res
  /\ posBefore' = pos
  /\ UNCHANGED <<inner, pos, accepted, requested>>

\* A seek that also accepts an absolute request for the current position.
WriteTrack_seek_start(from) ==
  /\ op' = "seek"
  /\ seekReq' = from
  /\ sinkRes' = Ok(0)
  /\ posBefore' = pos
  /\ ret' = IF \/ from.whence \in {"Current", "End"} /\ from.off = 0
               \/ from.whence = "Start" /\ from.off = pos
              THEN Ok(pos)
              ELSE Err("InvalidInput")
  /\ UNCHANGED <<inner, pos, accepted, requested>>

\* <WriteTrack as Seek>::seek
WriteTrack_seek(from) ==
  /\ op' = "seek"
  /\ seekReq' = from
  /\ sinkRes' = Ok(0)
  /\ posBefore' = pos
  /\ ret' = IF from.whence \in {"Current", "End"} /\ from.off = 0
              THEN Ok(pos)
              ELSE Err("InvalidInput")
  /\ UNCHANGED <<inner, pos, accepted, requested>>

\* Deref::deref: a shared borrow of the wrapped sink, which is only read.
WriteTrack_deref ==
  /\ op' = "deref"
  /\ seekReq' = NoRequest
  /\ sinkRes' = Ok(0)
  /\ ret' = Ok(Len(inner))
  /\ posBefore' = pos
  /\ UNCHANGED <<inner, pos, accepted, requested>>

\* A deref_mut whose direct write is counted by the adapter.
WriteTrack_deref_mut_counted(data, res) ==
  /\ Len(inner) + Len(data) <= MaxInner
  /\ res \in SinkWriteResults(data)
  /\ op' = "deref_mut"
  /\ seekReq' = NoRequest
  /\ sinkRes' = res
  /\ ret' = res
  /\ posBefore' = pos
  /\ inner' = IF res.kind = "Ok" THEN inner \o SubSeq(data, 1, res.val) ELSE inner
  /\ pos' = IF res.kind = "Ok" THEN pos + res.val ELSE pos
  /\ UNCHANGED <<accepted, requested>>

\* DerefMut::deref_mut: an exclusive borrow of the wrapped sink, through which
\* the caller writes to it directly; the adapter runs no code of its own.
WriteTrack_deref_mut(data, res) ==
  /\ Len(inner) + Len(data) <= MaxInner
  /\ res \in SinkWriteResults(data)
  /\ op' = "deref_mut"
  /\ seekReq' = NoRequest
  /\ sinkRes' = res
  /\ ret' = res
  /\ posBefore' = pos
  /\ inner' = IF res.kind = "Ok" THEN inner \o SubSeq(data, 1, res.val) ELSE inner
  /\ UNCHANGED <<pos, accepted, requested>>

TrackData == SeqsUpTo(TrackBytes, MaxData)



(***************************************************************************)
(* The encoders.  A value to encode is a leaf [ty, v, s]: ty names its     *)
(* type, v is an integer (for a float, its IEEE bit pattern; for a char,   *)
(* its code point) and s the code points of a str / String.                *)
(***************************************************************************)
MaxLen == 3
MaxText == 2

\* binwrite_array_impl!(0, 1, ..., 20) and binwrite_tuple_impl!(b1, ..., b20)
ArrayMaxSize == 20
TupleMaxArity == 20

Leaf(ty, v) == [ty |-> ty, v |-> v, s |-> <<>>]
Str(s) == [ty |-> "str", v |-> 0, s |-> s]

\* The three impls that issue one Write::write call.
SingleTypes == {"u8", "i8", "char"}
\* The types binwrite_impl! covers.
MacroTypes == {"u16", "u32", "u64", "i16", "i32", "i64", "f32", "f64"}

\* size_of of a numeric type, in bytes.
Width(ty) ==
  CASE ty \in {"u8", "i8", "char"} -> 1
    [] ty \in {"u16", "i16"} -> 2
    [] ty \in {"u32", "i32", "f32"} -> 4
    [] ty \in {"u64", "i64", "f64"} -> 8

RECURSIVE LEBytes(_, _)
\* to_le_bytes of the w-byte two's complement representation of v: the
\* floored \div and the non-negative % are the arithmetic shift and the mask.
LEBytes(v, w) ==
  IF w = 0 THEN <<>> ELSE <<v % 256>> \o LEBytes(v \div 256, w - 1)

RECURSIVE BEBytes(_, _)
\* to_be_bytes of the w-byte two's complement representation of v.
BEBytes(v, w) ==
  IF w = 0 THEN <<>> ELSE Append(BEBytes(v \div 256, w - 1), v % 256)

\* char::encode_utf8, the representation a str holds.
Utf8Char(cp) ==
  IF cp < 128 THEN <<cp>>
  ELSE IF cp < 2048 THEN <<192 + (cp \div 64), 128 + (cp % 64)>>
  ELSE IF cp < 65536
    THEN <<224 + (cp \div 4096), 128 + ((cp \div 64) % 64), 128 + (cp % 64)>>
  ELSE <<240 + (cp \div 262144), 128 + ((cp \div 4096) % 64),
         128 + ((cp \div 64) % 64), 128 + (cp % 64)>>

RECURSIVE as_bytes(_)
\* str::as_bytes
as_bytes(s) == IF s = <<>> THEN <<>> ELSE Utf8Char(Head(s)) \o as_bytes(Tail(s))

\* char::encode_utf16: one unit, or a surrogate pair above U+FFFF.
Utf16Char(cp) ==
  IF cp < 65536 THEN <<cp>>
  ELSE <<55296 + ((cp - 65536) \div 1024), 56320 + ((cp - 65536) % 1024)>>

RECURSIVE encode_utf16(_)
\* str::encode_utf16
encode_utf16(s) ==
  IF s = <<>> THEN <<>> ELSE Utf16Char(Head(s)) \o encode_utf16(Tail(s))

RECURSIVE Decimal(_)
\* Display of an unsigned integer: its decimal digits.
Decimal(n) ==
  IF n < 10 THEN <<48 + n>> ELSE Append(Decimal(n \div 10), 48 + (n % 10))

\* format!("{}", string): the text of a displayable input.
Display(input) == IF input.ty = "str" THEN input.s ELSE Decimal(input.v)

VARIABLES
  host,      \* target_endian of the build: what NativeEndian is
  call,      \* the top-level call in progress: kind, value, options.endian
  pc,        \* "idle", "call" (in the encoder), "write", "write_all", "done"
  idx,       \* number of element write_options calls started
  buf,       \* the bytes the element being written has still to hand over
  out,       \* the bytes appended to the sink since the call began
  leafRes,   \* what the last element write_options returned
  result,    \* what the top-level call returned
  log,       \* per element call, in call order: the element and the bytes it appended
  fail       \* the first element call that failed: its position in log and its error

encVars == <<host, call, pc, idx, buf, out, leafRes, result, log, fail>>
vars == <<inner, pos, op, seekReq, sinkRes, ret, posBefore, accepted, requested,
          host, call, pc, idx, buf, out, leafRes, result, log, fail>>

NoResult == [kind |-> "none", val |-> 0, err |-> "none"]
NoFail == [at |-> 0, err |-> "none"]
NoCall == [kind |-> "none", items |-> <<>>, input |-> Leaf("u8", 0), endian |-> "Native"]

EncIdle ==
  /\ call = NoCall
  /\ pc = "idle"
  /\ idx = 0
  /\ buf = <<>>
  /\ out = <<>>
  /\ leafRes = Ok(0)
  /\ result = NoResult
  /\ log = <<>>
  /\ fail = NoFail

\* NativeEndian is BigEndian or LittleEndian by cfg(target_endian).
NativeEndian == host

\* A binwrite_impl! whose Big and Little arms are swapped.
binwrite_impl_swapped(leaf, endian) ==
  CASE endian = "Big" -> LEBytes(leaf.v, Width(leaf.ty))
    [] endian = "Little" -> BEBytes(leaf.v, Width(leaf.ty))
    [] endian = "Native" ->
         IF NativeEndian = "Big" THEN BEBytes(leaf.v, Width(leaf.ty))
         ELSE LEBytes(leaf.v, Width(leaf.ty))

\* binwrite_impl!: the buffer writer.write_xx::<BE | LE | NativeEndian>(*self)
\* hands to write_all.
binwrite_impl(leaf, endian) ==
  CASE endian = "Big" -> BEBytes(leaf.v, Width(leaf.ty))
    [] endian = "Little" -> LEBytes(leaf.v, Width(leaf.ty))
    [] endian = "Native" ->
         IF NativeEndian = "Big" THEN BEBytes(leaf.v, Width(leaf.ty))
         ELSE LEBytes(leaf.v, Width(leaf.ty))

\* The buffer an element's write_options hands to the sink: &[*self as u8]
\* for u8, i8 and char, the ordered bytes for the macro types, as_bytes for
\* str and String.
LeafBytes(leaf, endian) ==
  CASE leaf.ty \in SingleTypes -> <<leaf.v % 256>>
    [] leaf.ty \in MacroTypes -> binwrite_impl(leaf, endian)
    [] leaf.ty = "str" -> as_bytes(leaf.s)


(***************************************************************************)
(* Calls and returns.                                                      *)
(***************************************************************************)

\* The callee returns r to the caller of the top-level call.
Return(r) ==
  /\ pc' = "done"
  /\ result' = r
  /\ UNCHANGED <<host, call, idx, buf, out, leafRes, log, fail>>

\* BinWrite::write_options(element, writer, options): the encoder calls the
\* element's write_options with the writer and the options it was given.
StartLeaf(leaf) ==
  /\ buf' = LeafBytes(leaf, call.endian)
  /\ pc' = IF leaf.ty \in SingleTypes THEN "write" ELSE "write_all"
  /\ idx' = idx + 1
  /\ log' = Append(log, [leaf |-> leaf, bytes |-> <<>>])
  /\ UNCHANGED <<host, call, out, leafRes, result, fail>>

\* The element's write_options returns r to the encoder that called it.
LeafReturn(r) ==
  /\ pc' = "call"
  /\ leafRes' = r
  /\ buf' = <<>>
  /\ fail' = IF r.kind = "Err" /\ fail.at = 0 THEN [at |-> Len(log), err |-> r.err] ELSE fail

\* The sink appends the first n bytes of buf.
Accept(n) ==
  /\ out' = out \o SubSeq(buf, 1, n)
  /\ log' = [log EXCEPT ![Len(log)].bytes = @ \o SubSeq(buf, 1, n)]

\* impl BinWrite for u8 / i8 / char: writer.write(&[*self as u8])?; Ok(())
single_write_options(res) ==
  /\ pc = "write"
  /\ res \in SinkWriteResults(buf)
  /\ IF res.kind = "Ok"
       THEN Accept(res.val) /\ LeafReturn(Ok(0))
       ELSE LeafReturn(res) /\ UNCHANGED <<out, log>>
  /\ UNCHANGED <<host, call, idx, result>>

\* Write::write_all, which write_xx of byteorder and the str impl call: one
\* pass of its loop.  It stops with Ok(()) once the buffer is empty, fails with
\* WriteZero when the sink accepts nothing, retries after Interrupted and
\* returns any other error.
write_all(res) ==
  /\ pc = "write_all"
  /\ \/ /\ buf = <<>>
        /\ res = Ok(0)
        /\ LeafReturn(Ok(0))
        /\ UNCHANGED <<out, log>>
     \/ /\ buf # <<>>
        /\ res \in SinkWriteResults(buf)
        /\ res.kind = "Ok"
        /\ res.val = 0
        /\ LeafReturn(Err("WriteZero"))
        /\ UNCHANGED <<out, log>>
     \/ /\ buf # <<>>
        /\ res \in SinkWriteResults(buf)
        /\ res.kind = "Ok"
        /\ res.val > 0
        /\ Accept(res.val)
        /\ buf' = SubSeq(buf, res.val + 1, Len(buf))
        /\ UNCHANGED <<pc, leafRes, fail>>
     \/ /\ buf # <<>>
        /\ res = Err("Interrupted")
        /\ UNCHANGED <<pc, buf, out, leafRes, log, fail>>
     \/ /\ buf # <<>>
        /\ res \in SinkWriteResults(buf)
        /\ res.kind = "Err"
        /\ res.err # "Interrupted"
        /\ LeafReturn(res)
        /\ UNCHANGED <<out, log>>
  /\ UNCHANGED <<host, call, idx, result>>

(***************************************************************************)
(* The encoders, at pc = "call": entered for the first time, or resumed    *)
(* with what the element just written returned.                            *)
(***************************************************************************)

\* binwrite_impl! and the u8 / i8 / char / str / String impls, called at top
\* level: the value is written, and what that gave is the call's result.
prim_write_options ==
  /\ pc = "call"
  /\ call.kind = "prim"
  /\ IF idx = 0 THEN StartLeaf(call.input) ELSE Return(leafRes)

\* A sequence encoder that drops the ? after the element's write_options.
seq_write_options_ignore ==
  /\ pc = "call"
  /\ call.kind \in {"vec", "slice", "array"}
  /\ IF idx < Len(call.items) THEN StartLeaf(call.items[idx + 1])
     ELSE Return(Ok(0))

\* A sequence encoder that walks the elements from the last to the first.
seq_write_options_reversed ==
  /\ pc = "call"
  /\ call.kind \in {"vec", "slice", "array"}
  /\ IF leafRes.kind = "Err" THEN Return(leafRes)
     ELSE IF idx < Len(call.items) THEN StartLeaf(call.items[Len(call.items) - idx])
     ELSE Return(Ok(0))

\* impl BinWrite for Vec<B>, [B] and [B; N]:
\* for item in self { BinWrite::write_options(item, writer, options)?; } Ok(())
seq_write_options ==
  /\ pc = "call"
  /\ call.kind \in {"vec", "slice", "array"}
  /\ IF leafRes.kind = "Err" THEN Return(leafRes)
     ELSE IF idx < Len(call.items) THEN StartLeaf(call.items[idx + 1])
     ELSE Return(Ok(0))

\* The type parameters binwrite_tuple_impl! is invoked with.
TupleIdents == [i \in 1..TupleMaxArity |-> i]

\* The parameters left when the recursion reaches the impl of arity n.
TupleParams(n) == SubSeq(TupleIdents, TupleMaxArity - n + 1, TupleMaxArity)

\* let (_, item_<types>...) = self: the tuple field each item_<ident> binds.
TupleField(n, ident) ==
  CHOOSE k \in 2..n : TupleParams(n)[k] = ident

\* The fields in the order the expansion writes them: self.0, then item_<ident>
\* for each ident of $types.
TupleOrder(n) ==
  IF n = 0 THEN <<>>
  ELSE <<1>> \o [j \in 1..(n - 1) |-> TupleField(n, Tail(TupleParams(n))[j])]

\* An expansion that writes self.0 again in place of the second field.
tuple_write_options_repeat ==
  /\ pc = "call"
  /\ call.kind = "tuple"
  /\ IF call.items = <<>> THEN Return(Ok(0))
     ELSE IF leafRes.kind = "Err" THEN Return(leafRes)
     ELSE IF idx < Len(call.items)
       THEN StartLeaf(call.items[IF idx = 1 THEN 1 ELSE TupleOrder(Len(call.items))[idx + 1]])
     ELSE Return(Ok(0))

\* binwrite_tuple_impl!: the impl for () returns Ok(()); the impl of arity n
\* writes self.0 and then each item, each followed by ?.
tuple_write_options ==
  /\ pc = "call"
  /\ call.kind = "tuple"
  /\ IF call.items = <<>> THEN Return(Ok(0))
     ELSE IF leafRes.kind = "Err" THEN Return(leafRes)
     ELSE IF idx < Len(call.items)
       THEN StartLeaf(call.items[TupleOrder(Len(call.items))[idx + 1]])
     ELSE Return(Ok(0))

\* writers::null_terminated_string
null_terminated_string ==
  /\ pc = "call"
  /\ call.kind = "cstr"
  /\ IF leafRes.kind = "Err" THEN Return(leafRes)
     ELSE IF idx = 0 THEN StartLeaf(Str(Display(call.input)))
     ELSE IF idx = 1 THEN StartLeaf(Leaf("u8", 0))
     ELSE Return(leafRes)

\* utf16_null_string after utf16_string(string, writer, options) returned r:
\* the ? and then BinWrite::write_options(&0u16, writer, options)
Utf16Terminator(r) ==
  IF r.kind = "Err" THEN Return(r) ELSE StartLeaf(Leaf("u16", 0))

\* utf16_string returns r: to the top-level caller, or back into
\* utf16_null_string when that made the call.
Utf16Return(nested, r) == IF nested THEN Utf16Terminator(r) ELSE Return(r)

\* A utf16_string that writes one unit per character: the character's code
\* point truncated to 16 bits.
utf16_string_truncating(text, nested) ==
  IF leafRes.kind = "Err" THEN Utf16Return(nested, leafRes)
  ELSE IF idx < Len(text) THEN StartLeaf(Leaf("u16", text[idx + 1] % 65536))
  ELSE Utf16Return(nested, Ok(0))

\* writers::utf16_string: for c in text.encode_utf16() { write_options(&c)?; } Ok(())
utf16_string(text, nested) ==
  IF leafRes.kind = "Err" THEN Utf16Return(nested, leafRes)
  ELSE IF idx < Len(encode_utf16(text)) THEN StartLeaf(Leaf("u16", encode_utf16(text)[idx + 1]))
  ELSE Utf16Return(nested, Ok(0))

\* writers::utf16_null_string: inside its call of utf16_string until that has
\* returned, then back from writing the terminator, whose result it returns.
utf16_null_string ==
  /\ pc = "call"
  /\ call.kind = "utf16_null"
  /\ IF idx <= Len(encode_utf16(Display(call.input)))
       THEN utf16_string(Display(call.input), TRUE)
       ELSE Return(leafRes)

(***************************************************************************)
(* The values the model encodes.                                           *)
(***************************************************************************)

\* Top-level primitive values: two per numeric type.  A 64-bit value is kept
\* within the range of the model checker's integers.
PrimLeaves ==
  {Leaf("u8", 0), Leaf("u8", 255), Leaf("i8", 0 - 2), Leaf("i8", 65),
   Leaf("char", 97), Leaf("char", 233),
   Leaf("u16", 3), Leaf("u16", 65534), Leaf("i16", 0 - 2), Leaf("i16", 258),
   Leaf("u32", 1), Leaf("u32", 16909060), Leaf("i32", 0 - 2), Leaf("i32", 20),
   Leaf("u64", 1), Leaf("u64", 16909060), Leaf("i64", 0 - 1), Leaf("i64", 2147483647),
   Leaf("f32", 1065353216), Leaf("f32", 0), Leaf("f64", 1), Leaf("f64", 0)}

\* Elements of a Vec<B>, [B] or [B; N]: all of one type.
SeqItems ==
  SeqsUpTo({Leaf("u8", 65), Leaf("u8", 0)}, MaxLen)
    \cup SeqsUpTo({Leaf("u16", 258), Leaf("u16", 65534)}, MaxLen)

\* Elements of a tuple: of any types.
TupleItems ==
  SeqsUpTo({Leaf("u8", 65), Leaf("u16", 3), Leaf("u16", 4), Leaf("i32", 0 - 2), Leaf("char", 233)},
           MaxLen)

\* Displayable inputs of the text writers: strings over 'a', e-acute and
\* U+1F600, and an unsigned integer.
TextInputs ==
  {Str(s) : s \in SeqsUpTo({97, 233, 128512}, MaxText)} \cup {Leaf("u32", 1234)}

Endians == {"Big", "Little", "Native"}

Calls ==
  {[kind |-> "prim", items |-> <<>>, input |-> l, endian |-> e] :
      l \in PrimLeaves \cup {Str(<<97, 233>>)}, e \in Endians}
    \cup {[kind |-> k, items |-> s, input |-> Leaf("u8", 0), endian |-> e] :
      k \in {"vec", "slice"}, s \in SeqItems, e \in Endians}
    \cup {[kind |-> "array", items |-> s, input |-> Leaf("u8", 0), endian |-> e] :
      s \in {t \in SeqItems : Len(t) <= ArrayMaxSize}, e \in Endians}
    \cup {[kind |-> "tuple", items |-> s, input |-> Leaf("u8", 0), endian |-> e] :
      s \in {t \in TupleItems : Len(t) <= TupleMaxArity}, e \in Endians}
    \cup {[kind |-> k, items |-> <<>>, input |-> i, endian |-> e] :
      k \in {"cstr", "utf16", "utf16_null"}, i \in TextInputs, e \in Endians}

\* The caller is done with the call and its sink; the run goes on.
Drop ==
  /\ pc = "done"
  /\ call' = NoCall
  /\ pc' = "idle"
  /\ idx' = 0
  /\ buf' = <<>>
  /\ out' = <<>>
  /\ leafRes' = Ok(0)
  /\ result' = NoResult
  /\ log' = <<>>
  /\ fail' = NoFail
  /\ UNCHANGED host

\* A caller calls write_options, or one of the writers, on a sink.
Call(c) ==
  /\ pc = "idle"
  /\ call' = c
  /\ pc' = "call"
  /\ idx' = 0
  /\ buf' = <<>>
  /\ out' = <<>>
  /\ leafRes' = Ok(0)
  /\ result' = NoResult
  /\ log' = <<>>
  /\ fail' = NoFail
  /\ UNCHANGED host

(***************************************************************************)
(* The specifications.  SpecTrack: any sequence of operations on a         *)
(* WriteTrack.  SpecEnc: any sequence of top-level calls, each run to its  *)
(* return one sink call at a time.                                         *)
(***************************************************************************)
InitTrackSpec ==
  /\ WriteTrack_new
  /\ host = "Little"
  /\ EncIdle

InitEnc ==
  /\ WriteTrack_new
  /\ host \in {"Big", "Little"}
  /\ EncIdle

DoWrite ==
  /\ \E data \in TrackData : \E res \in SinkWriteResults(data) : WriteTrack_write(data, res)
  /\ UNCHANGED encVars

DoFlush ==
  /\ \E res \in SinkFlushResults : WriteTrack_flush(res)
  /\ UNCHANGED encVars

DoSeek ==
  /\ \E from \in SeekRequests : WriteTrack_seek(from)
  /\ UNCHANGED encVars

DoDeref ==
  /\ WriteTrack_deref
  /\ UNCHANGED encVars

DoDerefMut ==
  /\ \E data \in TrackData : \E res \in SinkWriteResults(data) : WriteTrack_deref_mut(data, res)
  /\ UNCHANGED encVars

DoCall ==
  /\ pc = "idle"
  /\ \E c \in Calls : Call(c)
  /\ UNCHANGED trackVars

DoDrop ==
  /\ Drop
  /\ UNCHANGED trackVars

DoSingleWrite ==
  /\ pc = "write"
  /\ \E res \in SinkWriteResults(buf) : single_write_options(res)
  /\ UNCHANGED trackVars

DoWriteAll ==
  /\ pc = "write_all"
  /\ \E res \in SinkWriteResults(buf) : write_all(res)
  /\ UNCHANGED trackVars

DoPrim ==
  /\ prim_write_options
  /\ UNCHANGED trackVars

DoSeq ==
  /\ seq_write_options
  /\ UNCHANGED trackVars

DoTuple ==
  /\ tuple_write_options
  /\ UNCHANGED trackVars

DoCstr ==
  /\ null_terminated_string
  /\ UNCHANGED trackVars

DoUtf16 ==
  /\ pc = "call"
  /\ call.kind = "utf16"
  /\ utf16_string(Display(call.input), FALSE)
  /\ UNCHANGED trackVars

DoUtf16Null ==
  /\ utf16_null_string
  /\ UNCHANGED trackVars

NextTrack ==
  \/ DoWrite
  \/ DoFlush
  \/ DoSeek
  \/ DoDeref
  \/ DoDerefMut

NextEnc ==
  \/ DoCall
  \/ DoDrop
  \/ DoSingleWrite
  \/ DoWriteAll
  \/ DoPrim
  \/ DoSeq
  \/ DoTuple
  \/ DoCstr
  \/ DoUtf16
  \/ DoUtf16Null

SpecTrack == InitTrackSpec /\ [][NextTrack]_vars
SpecEnc == InitEnc /\ [][NextEnc]_vars

(***************************************************************************)
(* Properties of the WriteTrack adapter, checked under SpecTrack.          *)
(***************************************************************************)

\* The last operation was a seek for Current(0) or End(0).
ZeroSeek == op = "seek" /\ seekReq.whence \in {"Current", "End"} /\ seekReq.off = 0

\* The last operation was a seek for anything else.
OtherSeek == op = "seek" /\ ~(seekReq.whence \in {"Current", "End"} /\ seekReq.off = 0)

\* C1: after any sequence of write, flush and seek calls on the adapter, with
\* writes accepted in full, in part or failed, a seek for Current(0) or End(0)
\* succeeds with exactly the sum of the counts the wrapped sink reported on
\* the successful writes made through the adapter.
C1_ZeroSeekReturnsAccepted ==
  ZeroSeek => ret = Ok(accepted)

\* A zero-offset query answered after writes of which the sink accepted some
\* bytes but fewer than were requested.
C1_Witness ==
  /\ ZeroSeek
  /\ ret = Ok(accepted)
  /\ accepted > 0
  /\ accepted < requested

\* C2: every seek other than Current(0) and End(0), Start(n) included even
\* for n = 0 and for n equal to the counter, fails with InvalidInput and
\* leaves the position where it was.
C2_OtherSeeksFail ==
  OtherSeek => ret = Err("InvalidInput") /\ pos = posBefore

\* Start(n) refused with n the current, nonzero counter.
C2_Witness ==
  /\ OtherSeek
  /\ seekReq.whence = "Start"
  /\ seekReq.off = pos
  /\ pos > 0
  /\ ret = Err("InvalidInput")

\* C10: the counter starts at 0, never decreases, and only a write the sink
\* accepted moves it, by the count the sink reported; flush, seek, a failed
\* write and access through deref / deref_mut leave it alone; write and flush
\* return what the wrapped sink returned.
C10_CounterFrame ==
  /\ op = "new" => pos = 0
  /\ pos >= posBefore
  /\ pos # posBefore => op = "write" /\ sinkRes.kind = "Ok"
  /\ op = "write" /\ sinkRes.kind = "Ok" => pos = posBefore + sinkRes.val
  /\ op \in {"write", "flush"} => ret = sinkRes

\* Bytes written to the wrapped sink directly, through deref_mut, that the
\* counter did not count.
C10_Witness ==
  /\ op = "deref_mut"
  /\ sinkRes.kind = "Ok"
  /\ sinkRes.val > 0
  /\ pos = posBefore
  /\ Len(inner) > pos

(***************************************************************************)
(* Properties of the encoders, checked under SpecEnc.  The expected bytes  *)
(* are stated here from the value alone, not through the encoders.         *)
(***************************************************************************)

RECURSIVE Shr(_, _)
\* v shifted right by k bytes, arithmetically.
Shr(v, k) == IF k = 0 THEN v ELSE Shr(v \div 256, k - 1)

\* The w bytes of v in two's complement, most significant first.
MSBFirst(v, w) == [i \in 1..w |-> Shr(v, w - i) % 256]

Reverse(q) == [i \in 1..Len(q) |-> q[Len(q) + 1 - i]]

\* The byte order an Endian of the options stands for in this build.
OrderOf(endian) == IF endian = "Native" THEN host ELSE endian

\* The encoding of a value under an Endian.
Encoding(leaf, endian) ==
  CASE leaf.ty \in SingleTypes -> <<leaf.v % 256>>
    [] leaf.ty \in MacroTypes ->
         IF OrderOf(endian) = "Big" THEN MSBFirst(leaf.v, Width(leaf.ty))
         ELSE Reverse(MSBFirst(leaf.v, Width(leaf.ty)))
    [] leaf.ty = "str" -> as_bytes(leaf.s)

\* What an element's own write_options can have appended when it returns
\* Ok(()): its encoding, or for the impls that call Write::write once and
\* drop the count, any prefix of it.
ElementOutputs(leaf, endian) ==
  IF leaf.ty \in SingleTypes THEN {<<>>, Encoding(leaf, endian)}
  ELSE {Encoding(leaf, endian)}

RECURSIVE ConcatEncodings(_, _)
ConcatEncodings(items, endian) ==
  IF items = <<>> THEN <<>>
  ELSE Encoding(Head(items), endian) \o ConcatEncodings(Tail(items), endian)

RECURSIVE FlattenLog(_)
\* The bytes of the element calls, in call order.
FlattenLog(l) == IF l = <<>> THEN <<>> ELSE Head(l).bytes \o FlattenLog(Tail(l))

SeqKinds == {"vec", "slice", "array"}

\* Every element call of the log appended its whole encoding.
NoShortWrite ==
  \A i \in 1..Len(log) : log[i].bytes = Encoding(log[i].leaf, call.endian)

\* The call returned Ok(()) after one write_options call per element, in
\* index order, each under the options of the call, and the sink holds what
\* those calls appended and nothing else.
ElementWise ==
  /\ Len(log) = Len(call.items)
  /\ \A i \in 1..Len(log) :
       /\ log[i].leaf = call.items[i]
       /\ log[i].bytes \in ElementOutputs(call.items[i], call.endian)
  /\ out = FlattenLog(log)
  /\ NoShortWrite => out = ConcatEncodings(call.items, call.endian)

\* C3: what write_options of a Vec<B>, a [B] or a [B; N] appends is the
\* concatenation, in index order, of what each element's write_options
\* appends under the same options, with no length prefix or separator; a
\* sequence of length 0 appends nothing and succeeds.
C3_SequenceIsConcatenation ==
  (pc = "done" /\ call.kind \in SeqKinds) =>
    /\ call.items = <<>> => result = Ok(0) /\ out = <<>> /\ log = <<>>
    /\ result.kind = "Ok" => ElementWise

\* The array [258u16, 65534, 258] written big-endian.
C3_Witness ==
  /\ pc = "done"
  /\ call.kind = "array"
  /\ call.endian = "Big"
  /\ call.items = <<Leaf("u16", 258), Leaf("u16", 65534), Leaf("u16", 258)>>
  /\ result = Ok(0)
  /\ out = <<1, 2, 255, 254, 1, 2>>

\* C4: what write_options of a tuple appends is the concatenation of what its
\* fields' write_options append, first to last, each written once under the
\* same options; the empty tuple appends nothing, calls nothing and succeeds.
C4_TupleIsConcatenation ==
  (pc = "done" /\ call.kind = "tuple") =>
    /\ call.items = <<>> => result = Ok(0) /\ out = <<>> /\ log = <<>>
    /\ result.kind = "Ok" => ElementWise

\* The tuple (65u8, 3u16, -2i32) written little-endian.
C4_Witness ==
  /\ pc = "done"
  /\ call.kind = "tuple"
  /\ call.endian = "Little"
  /\ call.items = <<Leaf("u8", 65), Leaf("u16", 3), Leaf("i32", 0 - 2)>>
  /\ result = Ok(0)
  /\ out = <<65, 3, 0, 254, 255, 255, 255>>

\* C5: when an element of a sequence or tuple is the first to fail, no
\* write_options call is made for a later element, what the earlier elements
\* appended stays in the sink, and the call returns that element's error.
C5_FirstFailureAborts ==
  (call.kind \in SeqKinds \cup {"tuple"}) =>
    /\ pc = "done" /\ result.kind = "Err" => fail.at # 0
    /\ fail.at # 0 =>
         /\ Len(log) = fail.at
         /\ \A j \in 1..(fail.at - 1) :
              /\ log[j].leaf = call.items[j]
              /\ log[j].bytes \in ElementOutputs(call.items[j], call.endian)
         /\ log[fail.at].leaf = call.items[fail.at]
         /\ out = FlattenLog(log)
         /\ pc = "done" => result = Err(fail.err)

\* The second of three u16 elements of a Vec failed: the first is in the
\* sink, the third was never written.
C5_Witness ==
  /\ pc = "done"
  /\ call.kind = "vec"
  /\ call.endian = "Big"
  /\ call.items = <<Leaf("u16", 258), Leaf("u16", 65534), Leaf("u16", 258)>>
  /\ fail = [at |-> 2, err |-> "BrokenPipe"]
  /\ result = Err("BrokenPipe")
  /\ out = <<1, 2>>
  /\ Len(log) = 2

MultiByteInts == {"u16", "u32", "u64", "i16", "i32", "i64"}

\* C6: a multi-byte integer is written most significant byte first under Big
\* and in the reverse order under Little, in two's complement; under Native
\* it is written in the one order of the build, whatever the type and value.
C6_BigReversesLittle ==
  (pc = "done" /\ call.kind = "prim" /\ call.input.ty \in MultiByteInts /\ result.kind = "Ok") =>
    LET big == MSBFirst(call.input.v, Width(call.input.ty))
    IN  /\ call.endian = "Big" => out = big
        /\ call.endian = "Little" => out = Reverse(big)
        /\ call.endian = "Native" => out = IF host = "Big" THEN big ELSE Reverse(big)

\* -2i32 written little-endian: FE FF FF FF.
C6_Witness ==
  /\ pc = "done"
  /\ call.kind = "prim"
  /\ call.input = Leaf("i32", 0 - 2)
  /\ call.endian = "Little"
  /\ result = Ok(0)
  /\ out = <<254, 255, 255, 255>>

\* C7: whenever write_options of a fixed-width numeric type returns success,
\* exactly width/8 bytes, the encoding of the value, have been appended, also
\* on a sink that accepts fewer bytes than requested.
C7_SuccessWritesWidth ==
  (pc = "done" /\ call.kind = "prim" /\ call.input.ty \in (SingleTypes \cup MacroTypes) \ {"char"}
     /\ result.kind = "Ok") =>
    /\ Len(out) = Width(call.input.ty)
    /\ out = Encoding(call.input, call.endian)

\* C8: when null_terminated_string returns success the sink holds the bytes
\* of the displayed text followed by one zero byte, whatever the byte order
\* and also on a sink that accepts writes only partly; when writing the text
\* fails, the terminator is not written and that error is returned.
C8_TextThenTerminator ==
  (call.kind = "cstr") =>
    /\ pc = "done" /\ result.kind = "Ok" => out = as_bytes(Display(call.input)) \o <<0>>
    /\ fail.at = 1 => Len(log) = 1 /\ (pc = "done" => result = Err(fail.err))

\* Number of UTF-16 code units of a text: two for a character above U+FFFF.
RECURSIVE UnitCount(_)
UnitCount(s) ==
  IF s = <<>> THEN 0 ELSE (IF Head(s) > 65535 THEN 2 ELSE 1) + UnitCount(Tail(s))

\* The 16-bit units a byte sequence holds in a byte order.
RECURSIVE UnitsOf(_, _)
UnitsOf(bytes, order) ==
  IF Len(bytes) < 2 THEN <<>>
  ELSE <<IF order = "Big" THEN bytes[1] * 256 + bytes[2] ELSE bytes[2] * 256 + bytes[1]>>
         \o UnitsOf(SubSeq(bytes, 3, Len(bytes)), order)

\* The characters a sequence of UTF-16 units stands for.
RECURSIVE DecodeUtf16(_)
DecodeUtf16(units) ==
  IF units = <<>> THEN <<>>
  ELSE IF /\ Len(units) >= 2
          /\ units[1] \in 55296..56319
          /\ units[2] \in 56320..57343
    THEN <<65536 + (units[1] - 55296) * 1024 + (units[2] - 56320)>>
           \o DecodeUtf16(SubSeq(units, 3, Len(units)))
  ELSE <<units[1]>> \o DecodeUtf16(Tail(units))

\* C9: utf16_string appends the UTF-16 units of the displayed text in order,
\* a surrogate pair for a character above U+FFFF, each as a u16 in the byte
\* order of the options, 2 bytes per unit and no terminator; utf16_null_string
\* appends the same and then two zero bytes; when a unit fails nothing more is
\* written, the terminator included, and the error is returned.
C9_Utf16Units ==
  (call.kind \in {"utf16", "utf16_null"}) =>
    LET text == Display(call.input)
        n == UnitCount(text)
        body == SubSeq(out, 1, 2 * n)
    IN  /\ \A i \in 1..Len(log) : log[i].leaf.ty = "u16"
        /\ pc = "done" /\ result.kind = "Ok" =>
             /\ Len(out) = 2 * n + (IF call.kind = "utf16_null" THEN 2 ELSE 0)
             /\ DecodeUtf16(UnitsOf(body, OrderOf(call.endian))) = text
             /\ out = body \o (IF call.kind = "utf16_null" THEN <<0, 0>> ELSE <<>>)
        /\ fail.at \in 1..n => Len(log) = fail.at
        /\ pc = "done" /\ fail.at # 0 => result = Err(fail.err)

\* "a" and U+1F600 written by utf16_null_string big-endian: 00 61, the pair
\* D83D DE00, 00 00.
C9_Witness ==
  /\ pc = "done"
  /\ call.kind = "utf16_null"
  /\ call.endian = "Big"
  /\ call.input = Str(<<97, 128512>>)
  /\ result = Ok(0)
  /\ out = <<0, 97, 216, 61, 222, 0, 0, 0>>

====
